---- MODULE Spec2Model ----
(***************************************************************************)
(* FormattedText.tsx: the ReactRenderer that lets Marked, a string-in /    *)
(* string-out markdown compiler, build React elements.  Every element is   *)
(* pushed on this.elements and stands in Marked's output as the token      *)
(* "{{<index>}}"; getElements() turns a string of tokens and leaked source *)
(* text back into elements.  FormattedText is the component around it:     *)
(* null for no text, renderPlainText for the plain format, renderMarkdown  *)
(* for any other.                                                          *)
(*                                                                         *)
(* A JavaScript string is modelled as a sequence of one-character strings, *)
(* a React element as a record, the array this.elements as a sequence in   *)
(* which a hole of the JavaScript array reads as Undefined.                *)
(***************************************************************************)
EXTENDS Integers, Sequences, FiniteSets, TLC

\* Op applied to the value of v: what `const x = v; ...` does, v evaluated once.
Bind(v, Op(_)) == CHOOSE r \in {Op(x) : x \in {v}} : TRUE

(***************************************************************************)
(* Strings                                                                 *)
(***************************************************************************)
DigitChars == <<"0", "1", "2", "3", "4", "5", "6", "7", "8", "9">>

IsDigit(c) == \E d \in 1..10 : DigitChars[d] = c

DigitValue(c) == (CHOOSE d \in 1..10 : DigitChars[d] = c) - 1

\* `${elementId}`: the decimal digits of a non-negative integer.
RECURSIVE NumberToString(_)
NumberToString(n) ==
    IF n < 10 THEN <<DigitChars[n + 1]>>
    ELSE NumberToString(n \div 10) \o <<DigitChars[(n % 10) + 1]>>

\* Number(digits) of a non-empty string of decimal digits.
RECURSIVE Number(_)
Number(ds) ==
    IF Len(ds) = 0 THEN 0
    ELSE Number(SubSeq(ds, 1, Len(ds) - 1)) * 10 + DigitValue(ds[Len(ds)])

\* text.substr(from): from is 0-based.
Substr(s, from) == SubSeq(s, from + 1, Len(s))

\* text.substr(0, n)
Prefix(s, n) == SubSeq(s, 1, n)

\* s.startsWith(p)
StartsWith(s, p) == Len(s) >= Len(p) /\ SubSeq(s, 1, Len(p)) = p

\* text.indexOf(p): the 0-based offset of the first occurrence, -1 if none.
IndexOf(s, p) ==
    LET hits == {i \in 0..(Len(s) - Len(p)) : SubSeq(s, i + 1, i + Len(p)) = p}
    IN  IF hits = {} THEN -1 ELSE CHOOSE i \in hits : \A j \in hits : i <= j

RECURSIVE Concat(_)
Concat(ss) == IF Len(ss) = 0 THEN <<>> ELSE Head(ss) \o Concat(Tail(ss))

\* The character references He.unescape decodes that the model's inputs use.
Entities ==
    { [ref |-> <<"&", "a", "m", "p", ";">>, chr |-> "&"],
      [ref |-> <<"&", "#", "5", "8", ";">>, chr |-> ":"] }

\* He.unescape: one left-to-right pass, each character reference replaced by
\* its character, everything else kept (the replacement is not rescanned).
RECURSIVE Unescape(_)
Unescape(s) ==
    IF Len(s) = 0 THEN <<>>
    ELSE LET hit == {e \in Entities : StartsWith(s, e.ref)}
         IN  IF hit = {} THEN <<Head(s)>> \o Unescape(Tail(s))
             ELSE LET e == CHOOSE e \in hit : TRUE
                  IN  <<e.chr>> \o Unescape(Substr(s, Len(e.ref)))

LowerChar(c) ==
    CASE c = "H" -> "h" [] c = "T" -> "t" [] c = "P" -> "p" [] c = "S" -> "s"
      [] c = "J" -> "j" [] OTHER -> c

\* href.toLowerCase()
ToLowerCase(s) == [i \in 1..Len(s) |-> LowerChar(s[i])]

(***************************************************************************)
(* React elements and the array this.elements                              *)
(***************************************************************************)
Null == [tag |-> "null"]
Undefined == [tag |-> "undefined"]

\* !!el
Truthy(el) == el # Null /\ el # Undefined

\* React.createElement(tag, {key, ...}, ...): the fields a callback does not
\* set keep these defaults.
Element(tag, k) ==
    [tag |-> tag, key |-> k, text |-> <<>>, children |-> <<>>,
     href |-> <<>>, title |-> <<>>, alt |-> <<>>, align |-> "", onLoad |-> FALSE]

\* <span key={this.key++}>{subst}</span>
TextSpan(k, s) == [Element("span", k) EXCEPT !.text = s]

\* this.elements[index]: an index past the end or in a hole reads undefined.
ReadElement(els, index) == IF index < Len(els) THEN els[index + 1] ELSE Undefined

\* this.elements[index] = v: writing past the end lengthens the array, the
\* skipped positions are holes.
WriteElement(els, index, v) ==
    IF index < Len(els) THEN [els EXCEPT ![index + 1] = v]
    ELSE els \o [i \in 1..(index - Len(els)) |-> Undefined] \o <<v>>

\* `{{${elementId}}}`
Token(elementId) == <<"{", "{">> \o NumberToString(elementId) \o <<"}", "}">>

\* An addElement that reads the array's length after the push.
addElementLengthAfterPush(els, element) ==
    [elements |-> Append(els, element), ret |-> Token(Len(els) + 1)]

\* addElement: the new array and the string returned.
addElement(els, element) ==
    [elements |-> Append(els, element), ret |-> Token(Len(els))]

(***************************************************************************)
(* getElements                                                             *)
(***************************************************************************)
\* The number of leading digits of s.
RECURSIVE DigitRun(_)
DigitRun(s) ==
    IF Len(s) > 0 /\ IsDigit(Head(s)) THEN 1 + DigitRun(Tail(s)) ELSE 0

\* /^{{\d+}}/: the length of the match at the start of text, 0 if none.
MatchLength(text) ==
    IF StartsWith(text, <<"{", "{">>)
    THEN LET n == DigitRun(Substr(text, 2))
         IN  IF n > 0 /\ StartsWith(Substr(text, 2 + n), <<"}", "}">>)
             THEN n + 4 ELSE 0
    ELSE 0

\* The inner loop, lines 100-107: while the next "{{" is at an offset > 0, the
\* text before it becomes a span and is cut off.
RECURSIVE ConsumeLeaks(_)
ConsumeLeaks(st) ==
    Bind(IndexOf(st.text, <<"{", "{">>), LAMBDA next :
        IF next > 0
        THEN Bind([st EXCEPT
                      !.out = Append(@, TextSpan(st.key, Unescape(Prefix(st.text, next)))),
                      !.key = @ + 1,
                      !.text = Substr(@, next)],
                  LAMBDA cut : ConsumeLeaks(cut))
        ELSE st)

\* A strip that sets the slot at this.key to null.
StripTokenClearsKeySlot(st) ==
    Bind(MatchLength(st.text), LAMBDA m :
        IF m = 0 THEN [st EXCEPT !.stripped = FALSE]
        ELSE Bind(Number(SubSeq(st.text, 3, m - 2)), LAMBDA index :
             [st EXCEPT !.text = Substr(@, m),
                        !.out = Append(@, ReadElement(st.els, index)),
                        !.els = WriteElement(@, st.key, Null),
                        !.stripped = TRUE]))

\* A strip that pushes the element and leaves its slot as it was.
StripTokenKeepSlot(st) ==
    Bind(MatchLength(st.text), LAMBDA m :
        IF m = 0 THEN [st EXCEPT !.stripped = FALSE]
        ELSE Bind(Number(SubSeq(st.text, 3, m - 2)), LAMBDA index :
             [st EXCEPT !.text = Substr(@, m),
                        !.out = Append(@, ReadElement(st.els, index)),
                        !.stripped = TRUE]))

\* text.replace(re, ...), lines 91-96: re is anchored, so it strips at most one
\* token; its element is pushed (whatever it reads) and its slot set to null.
StripToken(st) ==
    Bind(MatchLength(st.text), LAMBDA m :
        IF m = 0 THEN [st EXCEPT !.stripped = FALSE]
        ELSE Bind(Number(SubSeq(st.text, 3, m - 2)), LAMBDA index :
             [st EXCEPT !.text = Substr(@, m),
                        !.out = Append(@, ReadElement(st.els, index)),
                        !.els = WriteElement(@, index, Null),
                        !.stripped = TRUE]))

\* An iteration without the check of line 109.
IterateNoRemainder(st) ==
    Bind(StripToken([st EXCEPT !.trailing = FALSE]), LAMBDA a :
        IF Len(a.text) = 0 THEN [a EXCEPT !.done = TRUE]
        ELSE ConsumeLeaks(a))

\* One iteration of the while (true) loop, lines 89-113.
Iterate(st) ==
    Bind(StripToken([st EXCEPT !.trailing = FALSE]), LAMBDA a :
        IF Len(a.text) = 0 THEN [a EXCEPT !.done = TRUE]
        ELSE Bind(ConsumeLeaks(a), LAMBDA b :
                 IF Len(st.text) = Len(b.text)
                 THEN [b EXCEPT !.text = Unescape(@),
                                !.out = Append(@, TextSpan(b.key, Unescape(b.text))),
                                !.key = @ + 1,
                                !.trailing = TRUE,
                                !.done = TRUE]
                 ELSE b))

\* The state of a getElements call on entry: the local text and elements (out),
\* this.elements (els) and this.key.
Enter(text, els, k) ==
    [text |-> text, out |-> <<>>, els |-> els, key |-> k,
     stripped |-> FALSE, trailing |-> FALSE, done |-> FALSE,
     returned |-> FALSE, ret |-> <<>>]

RECURSIVE RunLoop(_)
RunLoop(st) == IF st.done THEN st ELSE RunLoop(Iterate(st))

\* elements.filter(el => !!el)
RECURSIVE Filter(_)
Filter(out) ==
    IF Len(out) = 0 THEN <<>>
    ELSE IF Truthy(Head(out)) THEN <<Head(out)>> \o Filter(Tail(out))
    ELSE Filter(Tail(out))

\* A return that hands out the local array as it is.
ReturnUnfiltered(st) == [st EXCEPT !.returned = TRUE, !.ret = st.out]

\* Line 115: return elements.filter(el => !!el).
Return(st) == [st EXCEPT !.returned = TRUE, !.ret = Filter(st.out)]

\* getElements(text) on a renderer with this.elements = els, this.key = k: the
\* array returned and the renderer's fields afterwards.
getElements(text, els, k) ==
    LET st == Return(RunLoop(Enter(text, els, k)))
    IN  [ret |-> st.ret, elements |-> st.els, key |-> st.key]

(***************************************************************************)
(* The MarkedRenderer callbacks.  r is the renderer: r.elements, r.key and *)
(* r.options.  A callback yields the string it returns (ret), the          *)
(* renderer's fields afterwards, the getElements calls it made (got: the   *)
(* argument, this.elements and this.key on entry, the array returned and   *)
(* this.elements afterwards) and the elements it passed to addElement      *)
(* (added).                                                                *)
(***************************************************************************)
\* this.addElement(<Tag key={this.key++} ... />), nothing decoded.
Leaf(r, element) ==
    LET a == addElement(r.elements, element)
    IN  [ret |-> a.ret, elements |-> a.elements, key |-> r.key + 1,
         got |-> <<>>, added |-> <<element>>]

\* A container whose content is decoded at the key the container has.
ContainerKeyNotTaken(r, element, content) ==
    LET g == getElements(content, r.elements, r.key)
        el == [element EXCEPT !.children = g.ret]
        a == addElement(g.elements, el)
    IN  [ret |-> a.ret, elements |-> a.elements, key |-> g.key + 1,
         got |-> <<[text |-> content, els |-> r.elements, key |-> r.key,
                    ret |-> g.ret, after |-> g.elements]>>,
         added |-> <<el>>]

\* A container that does not decode its content.
ContainerWithoutChildren(r, element, content) ==
    LET a == addElement(r.elements, element)
    IN  [ret |-> a.ret, elements |-> a.elements, key |-> r.key + 1,
         got |-> <<>>, added |-> <<element>>]

\* this.addElement(<Tag key={this.key++} ...>{this.getElements(content)}</Tag>):
\* the key is taken first, then content is decoded, then the element is added.
Container(r, element, content) ==
    LET g == getElements(content, r.elements, r.key + 1)
        el == [element EXCEPT !.children = g.ret]
        a == addElement(g.elements, el)
    IN  [ret |-> a.ret, elements |-> a.elements, key |-> g.key,
         got |-> <<[text |-> content, els |-> r.elements, key |-> r.key + 1,
                    ret |-> g.ret, after |-> g.elements]>>,
         added |-> <<el>>]

code(r, c) == Leaf(r, [Element("code", r.key) EXCEPT !.text = Unescape(c)])

blockquote(r, quote) == Container(r, Element("blockquote", r.key), quote)

html(r, h) == Leaf(r, [Element("span", r.key) EXCEPT !.text = h])

\* `h${level}`
HeadingTag(level) ==
    CASE level = 1 -> "h1" [] level = 2 -> "h2" [] level = 3 -> "h3"
      [] level = 4 -> "h4" [] level = 5 -> "h5" [] OTHER -> "h6"

heading(r, content, level) == Container(r, Element(HeadingTag(level), r.key), content)

hr(r) == Leaf(r, Element("hr", r.key))

list(r, body, ordered) ==
    Container(r, Element(IF ordered THEN "ol" ELSE "ul", r.key), body)

listitem(r, content) == Container(r, Element("li", r.key), content)

paragraph(r, content) == Container(r, Element("p", r.key), content)

\* <thead> and <tbody> are created without a key.
NoKey == -1

table(r, header, body) ==
    LET h == getElements(header, r.elements, r.key + 1)
        b == getElements(body, h.elements, h.key)
        el == [Element("table", r.key) EXCEPT !.children =
                  << [Element("thead", NoKey) EXCEPT !.children = h.ret],
                     [Element("tbody", NoKey) EXCEPT !.children = b.ret] >>]
        a == addElement(b.elements, el)
    IN  [ret |-> a.ret, elements |-> a.elements, key |-> b.key,
         got |-> <<[text |-> header, els |-> r.elements, key |-> r.key + 1,
                    ret |-> h.ret, after |-> h.elements],
                   [text |-> body, els |-> h.elements, key |-> h.key,
                    ret |-> b.ret, after |-> b.elements]>>,
         added |-> <<el>>]

tablerow(r, content) == Container(r, Element("tr", r.key), content)

\* flags.align = flags.align || "initial"
tablecell(r, content, flags) ==
    Container(r,
        [Element(IF flags.header THEN "th" ELSE "td", r.key) EXCEPT
            !.align = IF flags.align = "" THEN "initial" ELSE flags.align],
        content)

strong(r, content) == Container(r, Element("strong", r.key), content)

em(r, content) == Container(r, Element("em", r.key), content)

codespan(r, c) == Leaf(r, [Element("code", r.key) EXCEPT !.text = Unescape(c)])

br(r) == Leaf(r, Element("br", r.key))

del(r, content) == Container(r, Element("del", r.key), content)

\* An unescapeAndSanitizeLink without the scheme check.
unescapeOnly(r, href) == [null |-> FALSE, href |-> Unescape(href)]

\* unescapeAndSanitizeLink: [null |-> TRUE] for null, the unescaped href
\* otherwise.  He.unescape does not throw, so the catch never runs.
unescapeAndSanitizeLink(r, href) ==
    LET h == Unescape(href)
        prot == ToLowerCase(h)
    IN  IF r.options.sanitize
           /\ ~(StartsWith(prot, <<"h", "t", "t", "p", ":">>)
                \/ StartsWith(prot, <<"h", "t", "t", "p", "s", ":">>))
        THEN [null |-> TRUE, href |-> <<>>]
        ELSE [null |-> FALSE, href |-> h]

\* if (!href) return '': null and the empty string are both falsy.
Rejected(r, ret) ==
    [ret |-> <<>>, elements |-> r.elements, key |-> r.key, got |-> <<>>, added |-> <<>>]

link(r, href, title, content) ==
    LET h == unescapeAndSanitizeLink(r, href)
    IN  IF h.null \/ h.href = <<>> THEN Rejected(r, <<>>)
        ELSE Container(r,
                 [Element("a", r.key) EXCEPT !.href = h.href, !.title = title],
                 content)

image(r, href, title, alt) ==
    LET h == unescapeAndSanitizeLink(r, href)
    IN  IF h.null \/ h.href = <<>> THEN Rejected(r, <<>>)
        ELSE Leaf(r, [Element("img", r.key) EXCEPT
                         !.href = h.href, !.title = title, !.alt = alt,
                         !.onLoad = TRUE])

text(r, t) == Leaf(r, [Element("span", r.key) EXCEPT !.text = Unescape(t)])

(***************************************************************************)
(* renderMarkdown                                                          *)
(***************************************************************************)
\* The default options of lines 37-44.
DefaultOptions ==
    [gfm |-> TRUE, tables |-> TRUE, breaks |-> FALSE, pedantic |-> FALSE,
     sanitize |-> FALSE, smartLists |-> TRUE, silent |-> FALSE,
     smartypants |-> FALSE]

\* A merge in which the defaults win.
MergeDefaultsWin(markdownOptions) ==
    [k \in DOMAIN DefaultOptions \cup DOMAIN markdownOptions |->
        IF k \in DOMAIN DefaultOptions THEN DefaultOptions[k]
        ELSE markdownOptions[k]]

\* { ...defaults, ...markdownOptions }: the caller's keys win.
MergeOptions(markdownOptions) ==
    [k \in DOMAIN DefaultOptions \cup DOMAIN markdownOptions |->
        IF k \in DOMAIN markdownOptions THEN markdownOptions[k]
        ELSE DefaultOptions[k]]

\* The markdownOptions the model's callers pass.
CallerOptions ==
    { [k \in {} |-> TRUE],
      [sanitize |-> TRUE],
      [sanitize |-> FALSE, breaks |-> TRUE] }

(***************************************************************************)
(* FormattedText and renderPlainText                                       *)
(***************************************************************************)
CR == "\r"

LF == "\n"

\* A test that takes only absent text for empty.
IsAbsent(p) == "text" \notin DOMAIN p

\* !props.text || props.text === '': props without text read undefined.
IsEmpty(p) == "text" \notin DOMAIN p \/ p.text = <<>>

\* s.replace(c, ''): the pattern is a string, so the first occurrence of c
\* is removed and no other.
ReplaceFirst(s, c) ==
    LET at == IndexOf(s, <<c>>)
    IN  IF at = -1 THEN s ELSE Prefix(s, at) \o Substr(s, at + 1)

\* A split that leaves out a last line that is empty.
SplitNoTrailing(s, c) ==
    LET at == {i \in 1..Len(s) : s[i] = c}
        ends == [j \in 1..Cardinality(at) |->
                    CHOOSE i \in at : Cardinality({l \in at : l < i}) = j - 1]
        from(j) == IF j = 1 THEN 1 ELSE ends[j - 1] + 1
        upto(j) == IF j > Cardinality(at) THEN Len(s) ELSE ends[j] - 1
        n == IF Len(s) = 0 \/ s[Len(s)] = c THEN Cardinality(at)
             ELSE Cardinality(at) + 1
    IN  [j \in 1..n |-> SubSeq(s, from(j), upto(j))]

\* s.split(c): the pieces of s between the occurrences of c, one more than
\* there are occurrences.
Split(s, c) ==
    LET at == {i \in 1..Len(s) : s[i] = c}
        ends == [j \in 1..Cardinality(at) |->
                    CHOOSE i \in at : Cardinality({l \in at : l < i}) = j - 1]
        from(j) == IF j = 1 THEN 1 ELSE ends[j - 1] + 1
        upto(j) == IF j > Cardinality(at) THEN Len(s) ELSE ends[j] - 1
    IN  [j \in 1..(Cardinality(at) + 1) |-> SubSeq(s, from(j), upto(j))]

\* The <span className=...> that wraps what a format renders.
Root(className, children) ==
    [tag |-> "span", className |-> className, children |-> children]

\* <span key={i}>{line}<br /></span>
PlainLine(line, i) ==
    [Element("span", i) EXCEPT !.text = line, !.children = <<Element("br", NoKey)>>]

\* renderPlainText, lines 24-28.
renderPlainText(t) ==
    LET lines == Split(ReplaceFirst(t, CR), LF)
    IN  Root("format-plain", [i \in 1..Len(lines) |-> PlainLine(lines[i], i - 1)])

\* The length of the match of /<br\s*\/?>/i at the start of s, 0 if none.
RECURSIVE Spaces(_)
Spaces(s) == IF Len(s) > 0 /\ Head(s) = " " THEN 1 + Spaces(Tail(s)) ELSE 0

BrLength(s) ==
    IF Len(s) >= 3 /\ s[1] = "<" /\ s[2] \in {"b", "B"} /\ s[3] \in {"r", "R"}
    THEN LET w == Spaces(Substr(s, 3))
             slash == IF Len(s) > 3 + w /\ s[4 + w] = "/" THEN 1 ELSE 0
         IN  IF Len(s) > 3 + w + slash /\ s[4 + w + slash] = ">"
             THEN 4 + w + slash ELSE 0
    ELSE 0

\* text.replace(/<br\s*\/?>/ig, '\r\n\r\n'), line 35.
RECURSIVE ReplaceBr(_)
ReplaceBr(s) ==
    IF Len(s) = 0 THEN <<>>
    ELSE LET n == BrLength(s)
         IN  IF n > 0 THEN <<CR, LF, CR, LF>> \o ReplaceBr(Substr(s, n))
             ELSE <<Head(s)>> \o ReplaceBr(Tail(s))

VARIABLES
    elements,    \* this.elements
    key,         \* this.key
    options,     \* this.options, the merged options
    output,      \* what Marked has put together and not yet handed to a callback:
                 \* the strings callbacks returned and the text it leaked, in order
    phase,       \* "parse" while Marked.parse runs, "done" once line 48 returned
    tree,        \* the array getElements returned at line 48
    steps,       \* callbacks called and fragments leaked so far
    calls,       \* every callback call so far: its name, href and title, the
                 \* content handed to it, the string returned, this.key on
                 \* entry, this.elements before and after
    decoded,     \* every getElements call so far: the fragments its argument was
                 \* made of, the argument, this.elements and this.key on entry,
                 \* the result, this.elements afterwards
    registered,  \* every element passed to addElement so far
    issued,      \* the string addElement returned for each of them
    loaded,      \* the keys of the mounted images whose load event has fired
    hookLog,     \* the onImageLoad invocations: the key of the image it ran for
    loop,        \* the state of one getElements call, stepped by iteration
    twin,        \* the state of a second getElements call, on the same text and
                 \* this.elements as loop, at another value of this.key
    props,       \* the props FormattedText is called with
    src,         \* the text renderMarkdown hands to Marked.parse
    result       \* what FormattedText returned, Undefined while it has not

vars ==
    <<elements, key, options, output, phase, tree, steps, calls, decoded,
      registered, issued, loaded, hookLog, loop, twin, props, src, result>>

\* No getElements call is being followed.
Idle == [Enter(<<>>, <<>>, 0) EXCEPT !.done = TRUE, !.returned = TRUE]

\* renderMarkdown after new ReactRenderer(options, onImageLoad), lines 35-47,
\* for a caller whose markdownOptions is one of callers.
Start(callers) ==
    /\ \E mo \in callers :
          /\ props = [text |-> <<"a">>, format |-> "markdown", markdownOptions |-> mo]
          /\ options = MergeOptions(mo)
    /\ src = ReplaceBr(props.text)
    /\ result = Undefined
    /\ elements = <<>>
    /\ key = 0
    /\ output = <<>>
    /\ phase = "parse"
    /\ tree = <<>>
    /\ steps = 0
    /\ calls = <<>>
    /\ decoded = <<>>
    /\ registered = <<>>
    /\ issued = <<>>
    /\ loaded = {}
    /\ hookLog = <<>>
    /\ loop = Idle
    /\ twin = Idle

\* A pass of a caller that passes no markdownOptions.
Init == Start({[k \in {} |-> TRUE]})

renderer == [elements |-> elements, key |-> key, options |-> options]

Fragment(str, origin) == [str |-> str, src |-> origin]

Strs(frags) == [i \in 1..Len(frags) |-> frags[i].str]

\* The last k fragments of output.
Last(k) == SubSeq(output, Len(output) - k + 1, Len(output))

\* Marked called callback name and got res; the callback's getElements calls
\* read pieces[1], pieces[2], ...  The k fragments the callback's content was
\* made of are replaced by the string returned.
Returned(name, href, title, res, k, pieces) ==
    /\ phase = "parse"
    /\ elements' = res.elements
    /\ key' = res.key
    /\ output' = Append(SubSeq(output, 1, Len(output) - k), Fragment(res.ret, "callback"))
    /\ steps' = steps + 1
    /\ calls' = Append(calls,
           [name |-> name, href |-> href, title |-> title, ret |-> res.ret,
            key |-> key, before |-> elements, after |-> res.elements,
            content |-> Concat([i \in 1..Len(pieces) |-> Concat(Strs(pieces[i]))])])
    /\ decoded' = decoded \o
           [i \in 1..Len(res.got) |->
               [pieces |-> pieces[i], text |-> res.got[i].text,
                els |-> res.got[i].els, key |-> res.got[i].key,
                ret |-> res.got[i].ret, after |-> res.got[i].after]]
    /\ registered' = registered \o res.added
    /\ issued' = IF res.added = <<>> THEN issued ELSE Append(issued, res.ret)
    /\ UNCHANGED <<options, phase, tree, loaded, hookLog, loop, twin, props, src,
                   result>>

\* The leaf texts, titles and alternative texts the model's Marked passes.
Texts == { <<"a">>, <<"&", "a", "m", "p", ";">> }

Titles == { <<"t">> }

Alts == { <<"a">> }

\* The destinations of the model's links and images.
Hrefs ==
    { <<"h", "t", "t", "p", ":">>,
      <<"H", "T", "T", "P", "S", ":">>,
      <<"h", "t", "t", "p", "&", "#", "5", "8", ";">>,
      <<"j", "s", ":">>,
      <<>> }

TextCall(texts) ==
    \E t \in texts :
        Returned("text", <<>>, <<>>, text(renderer, t), 0, <<>>)

ParagraphCall ==
    \E k \in 0..Len(output) :
        Returned("paragraph", <<>>, <<>>,
                 paragraph(renderer, Concat(Strs(Last(k)))), k, <<Last(k)>>)

LinkCall ==
    \E href \in Hrefs, title \in Titles, k \in 0..Len(output) :
        Returned("link", href, title,
                 link(renderer, href, title, Concat(Strs(Last(k)))), k, <<Last(k)>>)

\* Marked passes the alternative text of an image as raw text.
ImageCall ==
    \E href \in Hrefs, title \in Titles, alt \in Alts :
        Returned("image", href, title, image(renderer, href, title, alt), 0, <<>>)

\* Marked appends source text to its output without calling the renderer.
Leak(pieces) ==
    \E p \in pieces :
        /\ phase = "parse"
        /\ output' = Append(output, Fragment(p, "leak"))
        /\ steps' = steps + 1
        /\ UNCHANGED <<elements, key, options, phase, tree, calls, decoded,
                       registered, issued, loaded, hookLog, loop, twin, props,
                       src, result>>

\* Lines 48-54: Marked.parse returns, renderer.getElements decodes what it
\* returned and the elements are wrapped.
Finish ==
    /\ phase = "parse"
    /\ LET g == getElements(Concat(Strs(output)), elements, key)
       IN  /\ elements' = g.elements
           /\ key' = g.key
           /\ tree' = g.ret
           /\ decoded' = Append(decoded,
                  [pieces |-> output, text |-> Concat(Strs(output)),
                   els |-> elements, key |-> key, ret |-> g.ret,
                   after |-> g.elements])
           /\ result' = Root("format-markdown", g.ret)
    /\ phase' = "done"
    /\ UNCHANGED <<options, output, steps, calls, registered, issued, loaded,
                   hookLog, loop, twin, props, src>>

\* The elements of a tree, children included.
RECURSIVE Mounted(_)
Mounted(els) ==
    UNION {{els[i]} \cup Mounted(els[i].children) : i \in DOMAIN els}

\* An onLoad that invokes the hook twice.
onLoadTwice(img) == <<img.key, img.key>>

\* onLoad={() => this.onImageLoad()}: the hook invocations one load event of
\* img makes, each written as the key of img.
onLoad(img) == <<img.key>>

\* The display surface fires the load event of a mounted image, once the pass
\* has returned its tree; an image finishes loading once.
ImageLoaded ==
    /\ phase = "done"
    /\ \E img \in Mounted(tree) :
          /\ img.onLoad
          /\ img.key \notin loaded
          /\ loaded' = loaded \cup {img.key}
          /\ hookLog' = hookLog \o onLoad(img)
    /\ UNCHANGED <<elements, key, options, output, phase, tree, steps, calls,
                   decoded, registered, issued, loop, twin, props, src, result>>

\* Leaked text that may look like a token: Marked copies raw inline HTML and
\* autolink text, which the author of the message chooses.
LeakPieces ==
    { <<"a">>, <<"&", "a", "m", "p", ";">>, <<"{">>, Token(0), Token(1), Token(9) }

\* The callbacks and fragments of one pass the model follows.
MaxSteps == 4

Next ==
    \/ steps < MaxSteps /\ TextCall(Texts)
    \/ steps < MaxSteps /\ ParagraphCall
    \/ steps < MaxSteps /\ Leak(LeakPieces)
    \/ Finish

Spec == Init /\ [][Next]_vars

\* A pass in which Marked leaks no text that holds a brace, for a caller with
\* any of the model's markdownOptions.
InitPass == Start(CallerOptions)

PlainLeaks == { <<"a">> }

MaxPassSteps == 3

NextPass ==
    \/ steps < MaxPassSteps /\ TextCall(Alts)
    \/ steps < MaxPassSteps /\ ParagraphCall
    \/ steps < MaxPassSteps /\ LinkCall
    \/ steps < MaxPassSteps /\ ImageCall
    \/ steps < MaxPassSteps /\ Leak(PlainLeaks)
    \/ Finish
    \/ ImageLoaded

SpecPass == InitPass /\ [][NextPass]_vars

(***************************************************************************)
(* One getElements call, iteration by iteration                            *)
(***************************************************************************)
RECURSIVE SeqsUpTo(_, _)
SeqsUpTo(S, n) ==
    IF n = 0 THEN {<<>>}
    ELSE LET shorter == SeqsUpTo(S, n - 1)
         IN  shorter \cup {Append(q, x) : q \in shorter, x \in S}

\* What the argument of getElements is put together from.
LoopPieces ==
    { <<"a">>, <<"&", "a", "m", "p", ";">>, <<"{">>, Token(0), Token(1), Token(3) }

MaxPieces == 3

Streams == {Concat(ps) : ps \in SeqsUpTo(LoopPieces, MaxPieces)}

MaxRegistry == 2

\* this.elements as addElement and getElements leave it: elements, null for a
\* consumed slot, and holes, which only a write past the end makes, so that a
\* run of holes ends in the null written.
Registries ==
    LET slots(i) == {TextSpan(i - 1, <<"a">>), Null, Undefined}
        shaped(n) == {reg \in [1..n -> UNION {slots(i) : i \in 1..n}] :
                        \A i \in 1..n :
                            /\ reg[i] \in slots(i)
                            /\ reg[i] = Undefined =>
                                   i < n /\ reg[i + 1] \in {Undefined, Null}}
    IN  UNION {shaped(n) : n \in 0..MaxRegistry}

\* getElements(s) is called on a renderer whose this.elements is reg.
LoopEnter ==
    /\ loop = Idle
    /\ \E s \in Streams, reg \in Registries : loop' = Enter(s, reg, Len(reg))
    /\ UNCHANGED <<elements, key, options, output, phase, tree, steps, calls,
                   decoded, registered, issued, loaded, hookLog, twin, props, src,
                   result>>

LoopIteration ==
    /\ ~loop.done
    /\ loop' = Iterate(loop)
    /\ UNCHANGED <<elements, key, options, output, phase, tree, steps, calls,
                   decoded, registered, issued, loaded, hookLog, twin, props, src,
                   result>>

LoopReturn ==
    /\ loop.done
    /\ ~loop.returned
    /\ loop' = Return(loop)
    /\ UNCHANGED <<elements, key, options, output, phase, tree, steps, calls,
                   decoded, registered, issued, loaded, hookLog, twin, props, src,
                   result>>

NextLoop == LoopEnter \/ LoopIteration \/ LoopReturn

\* getElements is synchronous: a call that has started runs on.
SpecLoop == Init /\ [][NextLoop]_vars /\ WF_vars(LoopIteration \/ LoopReturn)

(***************************************************************************)
(* A pass with a table and leaked text                                     *)
(***************************************************************************)
\* Marked calls table with the header and the body it has put together: the
\* last body fragments of its output and the header fragments before them.
TableCall ==
    \E body \in 0..Len(output) : \E header \in 0..(Len(output) - body) :
        LET h == SubSeq(output, Len(output) - body - header + 1, Len(output) - body)
            b == Last(body)
        IN  Returned("table", <<>>, <<>>,
                     table(renderer, Concat(Strs(h)), Concat(Strs(b))),
                     header + body, <<h, b>>)

MaxTableSteps == 4

NextTable ==
    \/ steps < MaxTableSteps /\ TextCall(Alts)
    \/ steps < MaxTableSteps /\ Leak(PlainLeaks)
    \/ steps < MaxTableSteps /\ ParagraphCall
    \/ steps < MaxTableSteps /\ TableCall
    \/ Finish

SpecTable == Init /\ [][NextTable]_vars

(***************************************************************************)
(* Two getElements calls on the same text and the same this.elements       *)
(***************************************************************************)
\* The keys taken between the two call positions: by the callback that makes
\* the call (key++ comes before getElements), by leaks decoded before.
MaxAhead == 1

\* getElements(s) is called on a renderer whose this.elements is reg, once
\* with this.key at Len(reg) and once with this.key further on.
TwinEnter ==
    /\ loop = Idle
    /\ twin = Idle
    /\ \E s \in Streams, reg \in Registries, ahead \in 0..MaxAhead :
          /\ loop' = Enter(s, reg, Len(reg))
          /\ twin' = Enter(s, reg, Len(reg) + ahead)
    /\ UNCHANGED <<elements, key, options, output, phase, tree, steps, calls,
                   decoded, registered, issued, loaded, hookLog, props, src,
                   result>>

\* Each call that has not left its loop runs one iteration.
TwinIteration ==
    /\ ~loop.done \/ ~twin.done
    /\ loop' = IF loop.done THEN loop ELSE Iterate(loop)
    /\ twin' = IF twin.done THEN twin ELSE Iterate(twin)
    /\ UNCHANGED <<elements, key, options, output, phase, tree, steps, calls,
                   decoded, registered, issued, loaded, hookLog, props, src,
                   result>>

TwinReturn ==
    /\ loop.done /\ twin.done
    /\ ~loop.returned /\ ~twin.returned
    /\ loop' = Return(loop)
    /\ twin' = Return(twin)
    /\ UNCHANGED <<elements, key, options, output, phase, tree, steps, calls,
                   decoded, registered, issued, loaded, hookLog, props, src,
                   result>>

NextTwin == TwinEnter \/ TwinIteration \/ TwinReturn

SpecTwin == Init /\ [][NextTwin]_vars

(***************************************************************************)
(* FormattedText, from the call of the component to the tree it returns    *)
(***************************************************************************)
PlainChars == {"a", CR, LF}

MaxText == 4

\* The texts of the model's plain messages.
PlainTexts == SeqsUpTo(PlainChars, MaxText)

\* The texts of the model's markdown messages.
MarkdownTexts ==
    { <<"a">>, <<"<", "b", "r", ">">>, <<"a", "<", "B", "R", " ", "/", ">">> }

Formats == {"plain", "markdown", "xml"}

\* The props of the model's callers: no text or empty text in any format with
\* any markdownOptions, plain messages, markdown messages.
Props ==
    [format : Formats, markdownOptions : CallerOptions]
    \cup [text : {<<>>}, format : Formats, markdownOptions : CallerOptions]
    \cup [text : PlainTexts \ {<<>>}, format : {"plain"},
          markdownOptions : {[k \in {} |-> TRUE]}]
    \cup [text : MarkdownTexts, format : Formats \ {"plain"},
          markdownOptions : CallerOptions]

\* FormattedText is about to be called: no renderer exists.
InitRender ==
    /\ props \in Props
    /\ phase = "props"
    /\ options = Undefined
    /\ src = Undefined
    /\ result = Undefined
    /\ elements = <<>>
    /\ key = 0
    /\ output = <<>>
    /\ tree = <<>>
    /\ steps = 0
    /\ calls = <<>>
    /\ decoded = <<>>
    /\ registered = <<>>
    /\ issued = <<>>
    /\ loaded = {}
    /\ hookLog = <<>>
    /\ loop = Idle
    /\ twin = Idle

\* FormattedText, lines 12-22: null for no text, renderPlainText for the plain
\* format, else renderMarkdown up to the call of Marked.parse (lines 35-48).
FormattedText ==
    /\ phase = "props"
    /\ IF IsEmpty(props)
       THEN /\ result' = Null
            /\ phase' = "done"
            /\ UNCHANGED <<src, options, elements, key>>
       ELSE IF props.format = "plain"
       THEN /\ result' = renderPlainText(props.text)
            /\ phase' = "done"
            /\ UNCHANGED <<src, options, elements, key>>
       ELSE /\ src' = ReplaceBr(props.text)
            /\ options' = MergeOptions(props.markdownOptions)
            /\ elements' = <<>>
            /\ key' = 0
            /\ phase' = "parse"
            /\ UNCHANGED result
    /\ UNCHANGED <<output, tree, steps, calls, decoded, registered, issued,
                   loaded, hookLog, loop, twin, props>>

MaxRenderSteps == 2

NextRender ==
    \/ FormattedText
    \/ steps < MaxRenderSteps /\ TextCall(Alts)
    \/ steps < MaxRenderSteps /\ ParagraphCall
    \/ steps < MaxRenderSteps /\ LinkCall
    \/ steps < MaxRenderSteps /\ ImageCall
    \/ Finish

SpecRender == InitRender /\ [][NextRender]_vars

(***************************************************************************)
(* Properties                                                              *)
(***************************************************************************)
Range(q) == {q[i] : i \in DOMAIN q}

Count(x, q) == Cardinality({i \in DOMAIN q : q[i] = x})

\* Everything the getElements calls before the n-th returned, in order.
EmittedBefore(n) == Concat([i \in 1..(n - 1) |-> decoded[i].ret])

Emitted == EmittedBefore(Len(decoded) + 1)

\* C1: over all getElements calls of a pass, the nested ones of the callbacks
\* and streams that repeat a token included, an element passed to addElement
\* is returned at most once.
C1_EmittedAtMostOnce ==
    \A i \in DOMAIN registered : Count(registered[i], Emitted) <= 1

\* An element was returned by one call and a later call was handed a stream
\* that starts with its token again.
C1_Witness ==
    \E i \in DOMAIN registered : \E p, q \in DOMAIN decoded :
        /\ p < q
        /\ registered[i] \in Range(decoded[p].ret)
        /\ StartsWith(decoded[q].text, issued[i])

\* C2: getElements on exactly the string addElement returned for an element
\* returns that one element, provided no earlier call returned it, and
\* returns nothing when that string was decoded before.
C2_RoundTrip ==
    \A i \in DOMAIN issued : \A q \in DOMAIN decoded :
        decoded[q].text = issued[i] =>
            /\ registered[i] \notin Range(EmittedBefore(q)) =>
                   decoded[q].ret = <<registered[i]>>
            /\ (\E p \in 1..(q - 1) : decoded[p].text = issued[i]) =>
                   decoded[q].ret = <<>>

\* The string returned for an element was decoded, and decoded a second time.
C2_Witness ==
    \E i \in DOMAIN issued : \E p, q \in DOMAIN decoded :
        /\ p < q
        /\ decoded[p].text = issued[i]
        /\ decoded[p].ret = <<registered[i]>>
        /\ decoded[q].text = issued[i]

\* The fragments with every run of adjacent leaks joined into one.
RECURSIVE JoinLeaks(_)
JoinLeaks(frags) ==
    IF Len(frags) = 0 THEN <<>>
    ELSE LET h == Head(frags)
             rest == JoinLeaks(Tail(frags))
         IN  IF h.src = "leak" /\ Len(rest) > 0 /\ rest[1].src = "leak"
             THEN <<Fragment(h.str \o rest[1].str, "leak")>> \o Tail(rest)
             ELSE <<h>> \o rest

\* The n-th getElements call was handed tokens of distinct elements that no
\* earlier call returned, and between them leaks without "{{".
WellFormedStream(n) ==
    LET frags == JoinLeaks(decoded[n].pieces)
    IN  /\ \A j \in DOMAIN frags :
              IF frags[j].src = "leak"
              THEN IndexOf(frags[j].str, <<"{", "{">>) = -1
              ELSE /\ \E i \in DOMAIN issued :
                         /\ issued[i] = frags[j].str
                         /\ registered[i] \notin Range(EmittedBefore(n))
                   /\ \A l \in DOMAIN frags :
                         l # j /\ frags[l].src # "leak" => frags[l].str # frags[j].str

\* What the claim expects for one joined fragment: the registered element of
\* a token, the unescaped text of a leak.
Expected(frag) ==
    IF frag.src = "leak" THEN [leak |-> Unescape(frag.str)]
    ELSE [element |-> registered[CHOOSE i \in DOMAIN issued : issued[i] = frag.str]]

\* What an element of a result is: a registered element, or a span of text.
Seen(el) ==
    IF el \in Range(registered) THEN [element |-> el] ELSE [leak |-> el.text]

\* C3: for a stream of tokens of distinct registered, unconsumed elements with
\* leaks that contain no "{{" between them, getElements returns, in stream
\* order, the element of each token and one span holding the unescaped text
\* of each leak, and nothing else.
C3_LeakAbsorption ==
    \A n \in DOMAIN decoded :
        WellFormedStream(n) =>
            LET frags == JoinLeaks(decoded[n].pieces)
            IN  /\ Len(decoded[n].ret) = Len(frags)
                /\ \A j \in DOMAIN frags : Seen(decoded[n].ret[j]) = Expected(frags[j])

\* C4: the remainder is returned as one span (line 109) only when the
\* remaining text neither starts with a token nor holds "{{" anywhere.
C4_TrailingOnlyWithoutDelimiter ==
    [][loop'.trailing =>
          /\ MatchLength(loop.text) = 0
          /\ IndexOf(loop.text, <<"{", "{">>) = -1]_vars

\* An iteration strips a token, or cuts off leaked text, or ends the loop.
Progress ==
    \/ loop'.stripped
    \/ Len(loop'.out) > Len(loop.out) /\ Len(loop'.text) < Len(loop.text)
    \/ loop'.done

\* C5: getElements terminates: every iteration strips a token, removes leaked
\* characters or ends the loop, the remaining text is strictly shorter after
\* every iteration that does not end the loop, and the loop ends.
C5_Terminates ==
    /\ [][~loop.done => Progress /\ (~loop'.done => Len(loop'.text) < Len(loop.text))]_vars
    /\ (~loop.done) ~> loop.done

\* The loop has ended after a token was stripped and leaks were cut off.
C5_Witness ==
    /\ loop.done
    /\ ~loop.returned
    /\ loop.trailing
    /\ \E i, j \in DOMAIN loop.out : i < j /\ loop.out[j].tag = "span" /\ loop.out[i] = Null

\* C6: the k-th addElement call of a pass, counting from 0, returns the token
\* of index k, whatever getElements calls come between.
C6_DenseIndices ==
    \A k \in DOMAIN issued : issued[k] = Token(k - 1)

\* The index of the token that an iteration from st strips.
StrippedIndex(st) == Number(SubSeq(st.text, 3, MatchLength(st.text) - 2))

\* C7: a stripped token whose slot is consumed or was never written adds no
\* element to the result and changes no other slot, and the array returned
\* holds no null and no undefined.
C7_AbsentSkipped ==
    [][/\ (~loop.done /\ MatchLength(loop.text) > 0
              /\ ~Truthy(ReadElement(loop.els, StrippedIndex(loop)))) =>
              /\ ~Truthy(loop'.out[Len(loop.out) + 1])
              /\ \A j \in 0..(Len(loop'.els) + 1) :
                    j # StrippedIndex(loop) =>
                        ReadElement(loop'.els, j) = ReadElement(loop.els, j)
       /\ loop'.returned =>
              /\ \A el \in Range(loop'.ret) : Truthy(el)
              /\ Len(loop'.ret) = Cardinality({i \in DOMAIN loop.out : Truthy(loop.out[i])})]_vars

\* A call has returned that stripped a token of a consumed slot and a token
\* of a slot never written.
C7_Witness ==
    /\ loop.returned
    /\ loop # Idle
    /\ Null \in Range(loop.out)
    /\ Undefined \in Range(loop.out)
    /\ loop.ret # <<>>

\* A destination whose unescaped, lower-cased form starts with neither "http:"
\* nor "https:".
UnsafeScheme(href) ==
    LET dest == ToLowerCase(Unescape(href))
    IN  /\ ~StartsWith(dest, <<"h", "t", "t", "p", ":">>)
        /\ ~StartsWith(dest, <<"h", "t", "t", "p", "s", ":">>)

\* C8: with options.sanitize set, link and image called with a destination of
\* an unsafe scheme return the empty string and leave this.elements as it was,
\* whatever the title and the content.
C8_UnsafeRejected ==
    \A n \in DOMAIN calls :
        (/\ options.sanitize
         /\ calls[n].name \in {"link", "image"}
         /\ UnsafeScheme(calls[n].href)) =>
            /\ calls[n].ret = <<>>
            /\ calls[n].after = calls[n].before

\* With options.sanitize set and elements registered, a link and an image
\* with a destination of an unsafe scheme have been called.
C8_Witness ==
    /\ options.sanitize
    /\ \E n, m \in DOMAIN calls :
          /\ calls[n].name = "link" /\ calls[m].name = "image"
          /\ UnsafeScheme(calls[n].href) /\ UnsafeScheme(calls[m].href)
          /\ calls[n].href # <<>>
          /\ calls[n].before # <<>>

\* The indices of the tokens in a string, in the order of their places.
TokenIndices(str) ==
    LET places == {i \in 0..(Len(str) - 1) : MatchLength(Substr(str, i)) > 0}
        RECURSIVE From(_)
        From(i) ==
            IF i >= Len(str) THEN <<>>
            ELSE IF i \in places
                 THEN <<Number(SubSeq(str, i + 3, i + MatchLength(Substr(str, i)) - 2))>>
                      \o From(i + 1)
                 ELSE From(i + 1)
    IN  From(0)

\* C9: when Marked makes the content of each callback from the strings its
\* earlier callbacks returned, every token in a string handed to getElements
\* names a slot that holds an element, registered before and not yet
\* consumed, and no two tokens of the string name the same slot.
C9_TokensResolve ==
    \A n \in DOMAIN decoded :
        LET idx == TokenIndices(decoded[n].text)
        IN  /\ \A j \in DOMAIN idx : Truthy(ReadElement(decoded[n].els, idx[j]))
            /\ \A j, l \in DOMAIN idx : j # l => idx[j] # idx[l]

\* A string of two tokens, one of them of an element with children, was
\* handed to getElements.
C9_Witness ==
    \E n \in DOMAIN decoded :
        /\ Len(TokenIndices(decoded[n].text)) >= 2
        /\ Len(decoded[n].ret) >= 2
        /\ \E el \in Range(decoded[n].ret) : el.children # <<>>

\* C10: onImageLoad is invoked at most once for an image, only for an image
\* that has finished loading, and only for an image whose call was accepted,
\* never for one whose destination was rejected.
C10_HookOncePerLoadedImage ==
    \A k \in Range(hookLog) :
        /\ Count(k, hookLog) <= 1
        /\ k \in loaded
        /\ \E n \in DOMAIN calls :
              /\ calls[n].name = "image"
              /\ calls[n].key = k
              /\ calls[n].ret # <<>>
              /\ ~(options.sanitize /\ UnsafeScheme(calls[n].href))

\* Two images have loaded, in a pass that also rejected an image.
C10_Witness ==
    /\ Len(hookLog) = 2
    /\ \E n \in DOMAIN calls :
          calls[n].name = "image" /\ calls[n].ret = <<>> /\ calls[n].href # <<>>

\* The CR of every CR+LF pair of s removed.
RECURSIVE NormalizeCrLf(_)
NormalizeCrLf(s) ==
    IF Len(s) = 0 THEN <<>>
    ELSE IF Len(s) >= 2 /\ s[1] = CR /\ s[2] = LF THEN NormalizeCrLf(Tail(s))
    ELSE <<Head(s)>> \o NormalizeCrLf(Tail(s))

\* FormattedText has returned what it renders for a plain text that is not
\* empty.
PlainRendered ==
    /\ phase = "done"
    /\ props.format = "plain"
    /\ "text" \in DOMAIN props
    /\ props.text # <<>>

\* The text lines of a rendered plain text.
Lines(root) == [i \in 1..Len(root.children) |-> root.children[i].text]

\* Every CR of s stands in a CR+LF pair.
OnlyPairs(s) == \A i \in DOMAIN s : s[i] = CR => i < Len(s) /\ s[i + 1] = LF

\* C11: the lines rendered for a plain text that is not empty are the
\* newline-delimited lines of the text with the CR of every CR+LF pair
\* removed, so that no line rendered ends with the CR of a CR+LF pair.
\* Stated for the texts in which a CR stands nowhere but in such a pair.
C11_CrLfNormalized ==
    (PlainRendered /\ OnlyPairs(props.text)) =>
        /\ Lines(result) = Split(NormalizeCrLf(props.text), LF)
        /\ \A i \in DOMAIN Lines(result) :
              LET line == Lines(result)[i]
              IN  Len(line) > 0 => line[Len(line)] # CR

\* The line breaks under an element.
RECURSIVE Breaks(_)
Breaks(els) ==
    IF Len(els) = 0 THEN 0
    ELSE (IF Head(els).tag = "br" THEN 1 ELSE 0)
         + Breaks(Head(els).children) + Breaks(Tail(els))

\* C12: a plain text that is not empty renders as many line breaks as it has
\* newline-delimited lines, the number of its newline characters plus one:
\* one span per line that holds the line's text and after it one line break.
C12_BreakPerLine ==
    PlainRendered =>
        LET n == Count(LF, props.text) + 1
        IN  /\ Breaks(result.children) = n
            /\ Len(result.children) = n
            /\ \A i \in 1..n :
                  /\ result.children[i].tag = "span"
                  /\ Len(result.children[i].children) = 1
                  /\ result.children[i].children[1].tag = "br"

\* A plain text of three lines, the last one empty, has been rendered.
C12_Witness ==
    /\ PlainRendered
    /\ Count(LF, props.text) = 2
    /\ props.text[Len(props.text)] = LF
    /\ Len(result.children) = 3

\* The defaults the merged options fall back on.
FixedDefaults ==
    [gfm |-> TRUE, tables |-> TRUE, breaks |-> FALSE, pedantic |-> FALSE,
     sanitize |-> FALSE, smartLists |-> TRUE, silent |-> FALSE,
     smartypants |-> FALSE]

\* The value the caller's markdownOptions and the defaults give option k.
Configured(k) ==
    IF k \in DOMAIN props.markdownOptions THEN props.markdownOptions[k]
    ELSE FixedDefaults[k]

\* C13: the options of a markdown pass hold, for every key, the caller's value
\* when the caller gave one and the default otherwise, and link and image
\* check the scheme of a destination exactly when that sanitize value is set.
C13_MergedOptions ==
    options # Undefined =>
        /\ DOMAIN options = DOMAIN FixedDefaults
        /\ \A k \in DOMAIN FixedDefaults : options[k] = Configured(k)
        /\ \A n \in DOMAIN calls :
              (calls[n].name \in {"link", "image"} /\ UnsafeScheme(calls[n].href)
                  /\ Unescape(calls[n].href) # <<>>) =>
                  (calls[n].ret = <<>> <=> Configured("sanitize"))

\* A caller that set sanitize had a link of an unsafe scheme rejected, and
\* an option it did not give kept its default.
C13_Witness ==
    /\ options # Undefined
    /\ props.markdownOptions = [sanitize |-> TRUE]
    /\ options.smartLists
    /\ \E n \in DOMAIN calls :
          /\ calls[n].name = "link"
          /\ UnsafeScheme(calls[n].href)
          /\ Unescape(calls[n].href) # <<>>
          /\ calls[n].ret = <<>>

\* C15: for no text and for empty text, in every format and with any
\* markdownOptions, FormattedText returns null: no renderer is constructed,
\* Marked is not called, no element is registered.
C15_EmptyIsNull ==
    ("text" \notin DOMAIN props \/ props.text = <<>>) =>
        /\ phase \in {"props", "done"}
        /\ phase = "done" => result = Null
        /\ options = Undefined
        /\ src = Undefined
        /\ elements = <<>> /\ registered = <<>> /\ calls = <<>> /\ decoded = <<>>

\* FormattedText has returned for an empty text in a markdown format with
\* markdownOptions given.
C15_Witness ==
    /\ "text" \in DOMAIN props
    /\ props.text = <<>>
    /\ props.format = "markdown"
    /\ props.markdownOptions = [sanitize |-> TRUE]
    /\ phase = "done"
    /\ result = Null

\* Both calls have returned.
TwinsReturned == loop # Idle /\ loop.returned /\ twin.returned

\* C14: two getElements calls on the same text with equal this.elements return
\* equal arrays of elements and leave equal this.elements, wherever in the
\* pass they are made.
C14_DecodeIsPure ==
    TwinsReturned => loop.ret = twin.ret /\ loop.els = twin.els

\* C14, amended: two getElements calls on the same text with equal
\* this.elements leave equal this.elements and return arrays of equal length
\* that hold the same elements of this.elements at the same places, and at
\* the other places text spans of the same text whose keys continue this.key
\* of each call: the arrays differ by the distance of the two key counters
\* in the keys of the spans made from leaks, and in nothing else.
C14_DecodeIsPureButForKeys ==
    TwinsReturned =>
        LET ahead == twin.key - loop.key
        IN  /\ loop.els = twin.els
            /\ Len(loop.ret) = Len(twin.ret)
            /\ \A j \in DOMAIN loop.ret :
                  \/ loop.ret[j] = twin.ret[j]
                  \/ /\ loop.ret[j] = TextSpan(loop.ret[j].key, loop.ret[j].text)
                     /\ twin.ret[j] = [loop.ret[j] EXCEPT !.key = @ + ahead]

\* The two calls were made at different values of this.key and returned an
\* element of this.elements and a span made from a leak.
C14_Witness ==
    /\ TwinsReturned
    /\ twin.key # loop.key
    /\ \E i, j \in DOMAIN loop.ret :
          /\ loop.ret[i] = twin.ret[i]
          /\ loop.ret[j] # twin.ret[j]

\* C16: link and image return the empty string only for a destination that
\* fails the scheme check while options.sanitize is set (He.unescape does not
\* throw); for every other destination, and so for every destination when
\* sanitize is not set, they register one element and return its token.
C16_EmptyOnlyOnFailure ==
    \A n \in DOMAIN calls :
        calls[n].name \in {"link", "image"} =>
            IF options.sanitize /\ UnsafeScheme(calls[n].href)
            THEN calls[n].ret = <<>> /\ calls[n].after = calls[n].before
            ELSE /\ Len(calls[n].after) = Len(calls[n].before) + 1
                 /\ Truthy(calls[n].after[Len(calls[n].after)])
                 /\ calls[n].ret = Token(Len(calls[n].before))

\* The element registered i-th was named by a token in the content of a link
\* call that returned the empty string.
InRejectedLink(i) ==
    \E n \in DOMAIN calls :
        /\ calls[n].name = "link"
        /\ calls[n].ret = <<>>
        /\ \E idx \in Range(TokenIndices(calls[n].content)) : Token(idx) = issued[i]

\* C17: when a pass in which Marked made every content from the strings its
\* callbacks returned and leaked no braces has ended, every element
\* registered in it has been returned by getElements exactly once and its
\* slot is null.
C17_AllConsumedOnce ==
    phase = "done" =>
        \A i \in DOMAIN registered :
            /\ Count(registered[i], Emitted) = 1
            /\ \A idx \in 0..(Len(elements) - 1) :
                  Token(idx) = issued[i] => elements[idx + 1] = Null

\* C17, amended: when such a pass has ended, the elements named in the
\* content of a rejected link have never been returned by getElements and
\* are still in their slots, and every other element registered has been
\* returned exactly once and its slot is null.
C17_ConsumedOnceUnlessDropped ==
    phase = "done" =>
        \A i \in DOMAIN registered :
            /\ Count(registered[i], Emitted) = IF InRejectedLink(i) THEN 0 ELSE 1
            /\ \A idx \in 0..(Len(elements) - 1) :
                  Token(idx) = issued[i] =>
                      elements[idx + 1] =
                          IF InRejectedLink(i) THEN registered[i] ELSE Null

\* A pass has ended in which a link with content was rejected and another
\* element came into the tree.
C17_Witness ==
    /\ phase = "done"
    /\ \E i \in DOMAIN registered :
          InRejectedLink(i) /\ Truthy(ReadElement(elements, i - 1))
    /\ \E j \in DOMAIN registered : registered[j] \in Range(tree)

\* The callbacks that decode a content string, link when it accepts the
\* destination.
Containers ==
    {"blockquote", "heading", "list", "listitem", "paragraph", "table",
     "tablerow", "tablecell", "strong", "em", "del", "link"}

\* C18: a container callback decodes its content, registers one element that
\* wraps what the content decoded to, and returns the token of that element's
\* index: this.elements is one entry longer, and the slots that were consumed
\* are exactly the slots that the tokens in the content name.
C18_ContainerFrame ==
    \A n \in DOMAIN calls :
        (calls[n].name \in Containers /\ calls[n].ret # <<>>) =>
            LET before == calls[n].before
                after == calls[n].after
                named == Range(TokenIndices(calls[n].content))
            IN  /\ Len(after) = Len(before) + 1
                /\ calls[n].ret = Token(Len(before))
                /\ Truthy(after[Len(after)])
                /\ \A idx \in 0..(Len(before) - 1) :
                      IF idx \in named /\ Truthy(before[idx + 1])
                      THEN /\ after[idx + 1] = Null
                           /\ before[idx + 1] \in Mounted(after[Len(after)].children)
                      ELSE after[idx + 1] = before[idx + 1]

\* The spans the n-th getElements call made from leaked text: what it
\* returned and did not read from this.elements.
Synthesized(n) ==
    SelectSeq(decoded[n].ret, LAMBDA el : el \notin Range(decoded[n].els))

\* The elements that took a key from this.key: those passed to addElement and
\* the spans made from leaked text.
Keyed == registered \o Concat([n \in 1..Len(decoded) |-> Synthesized(n)])

\* The <thead> and <tbody> of the tables.
Wrappers ==
    Concat([i \in 1..Len(registered) |->
               IF registered[i].tag = "table" THEN registered[i].children ELSE <<>>])

\* C19: every element the renderer creates in a pass has a key that no other
\* element created in the pass has, and this.key grows with every element.
C19_KeysDistinct ==
    LET created == Keyed \o Wrappers
    IN  /\ \A i, j \in DOMAIN created : i # j => created[i].key # created[j].key
        /\ key >= Len(created)

\* C19, amended: every element passed to addElement and every span made from
\* leaked text has the value this.key had when it was created, this.key
\* grows by one with each of them, so that no two of them have the same key;
\* the <thead> and the <tbody> that table creates have no key.
C19_CounterKeysDistinct ==
    /\ \A i, j \in DOMAIN Keyed : i # j => Keyed[i].key # Keyed[j].key
    /\ \A i \in DOMAIN Keyed : Keyed[i].key \in 0..(key - 1)
    /\ key = Len(Keyed)
    /\ \A i \in DOMAIN Wrappers : Wrappers[i].key = NoKey

\* A table was registered whose header holds a span made from leaked text and
\* whose body holds a registered element.
C19_Witness ==
    \E i \in DOMAIN registered :
        /\ registered[i].tag = "table"
        /\ \E n \in DOMAIN decoded :
              /\ Synthesized(n) # <<>>
              /\ registered[i].children[1].children = decoded[n].ret
        /\ \E j \in DOMAIN registered :
              registered[j] \in Range(registered[i].children[2].children)
====
